---- MODULE Spec2Model ----
(***************************************************************************)
(* Model of src/bot.py: Bot.next_move, Bot.minimax and Bot.evaluate_board. *)
(*                                                                         *)
(* The chess rules live in the python-chess library, which bot.py only     *)
(* uses through board.legal_moves, board.push, board.pop, board.turn,      *)
(* board.pieces and board.is_game_over.  The model keeps that interface    *)
(* and replaces the rules by a bounded family of games: a position is the  *)
(* side to move, the piece counts of both sides and the move stack; the    *)
(* legal moves of a position are the moves of game.moves whose capture is  *)
(* still possible, and the game is over after game.len plies.              *)
(*                                                                         *)
(* minimax is modelled statement by statement with an explicit call stack  *)
(* of frames holding its parameters and locals.                            *)
(***************************************************************************)
EXTENDS Integers, Sequences, FiniteSets, TLC

VARIABLES game, board, stack, ret, status, call, result

vars == <<game, board, stack, ret, status, call, result>>

(***************************************************************************)
(* Bounds of the family of games.                                          *)
(***************************************************************************)
MaxMoves == 2
MaxPly == 4

(***************************************************************************)
(* Values of the program.                                                  *)
(***************************************************************************)
max_depth == 4
PosInf == 1000
NegInf == 0 - PosInf

WHITE == "WHITE"
BLACK == "BLACK"
Colors == {WHITE, BLACK}

PieceTypes == {"PAWN", "KNIGHT", "BISHOP", "ROOK", "QUEEN", "KING"}
PieceOrder == <<"PAWN", "KNIGHT", "BISHOP", "ROOK", "QUEEN", "KING">>

piece_values ==
  [t \in PieceTypes |->
     CASE t = "PAWN" -> 1
       [] t = "KNIGHT" -> 3
       [] t = "BISHOP" -> 3
       [] t = "ROOK" -> 5
       [] t = "QUEEN" -> 9
       [] t = "KING" -> 0]

StartPieces ==
  [c \in Colors |->
     [t \in PieceTypes |->
        CASE t = "PAWN" -> 8
          [] t = "KNIGHT" -> 2
          [] t = "BISHOP" -> 2
          [] t = "ROOK" -> 2
          [] t = "QUEEN" -> 1
          [] t = "KING" -> 1]]

Other(c) == IF c = WHITE THEN BLACK ELSE WHITE

(***************************************************************************)
(* The position interface (python-chess), as bot.py uses it.               *)
(***************************************************************************)
NoCapture == "none"
Captures == {NoCapture, "PAWN", "QUEEN"}

NoMove == [id |-> 0, capture |-> NoCapture]

MoveAt(i) == [id |-> i, capture |-> game.moves[i]]

CanPlay(b, m) ==
  \/ m.capture = NoCapture
  \/ b.pieces[Other(b.turn)][m.capture] > 0

RECURSIVE MovesFrom(_, _)
MovesFrom(b, i) ==
  IF i > Len(game.moves) THEN <<>>
  ELSE IF CanPlay(b, MoveAt(i)) THEN <<MoveAt(i)>> \o MovesFrom(b, i + 1)
  ELSE MovesFrom(b, i + 1)

legal_moves(b) ==
  IF Len(b.move_stack) >= game.len THEN <<>> ELSE MovesFrom(b, 1)

is_game_over(b) == legal_moves(b) = <<>>

is_checkmate(b) == is_game_over(b) /\ game.check

Push(b, m) ==
  [turn |-> Other(b.turn),
   pieces |-> IF m.capture = NoCapture THEN b.pieces
              ELSE [b.pieces EXCEPT ![Other(b.turn)][m.capture] = @ - 1],
   move_stack |-> Append(b.move_stack, m)]

Pop(b) ==
  LET m == b.move_stack[Len(b.move_stack)] IN
  [turn |-> Other(b.turn),
   pieces |-> IF m.capture = NoCapture THEN b.pieces
              ELSE [b.pieces EXCEPT ![b.turn][m.capture] = @ + 1],
   move_stack |-> SubSeq(b.move_stack, 1, Len(b.move_stack) - 1)]

uci(m) == m.id

(***************************************************************************)
(* Bot.evaluate_board                                                      *)
(***************************************************************************)
RECURSIVE MaterialFrom(_, _)
MaterialFrom(b, k) ==
  IF k > Len(PieceOrder) THEN 0
  ELSE LET piece == PieceOrder[k] IN
       b.pieces[WHITE][piece] * piece_values[piece]
       - b.pieces[BLACK][piece] * piece_values[piece]
       + MaterialFrom(b, k + 1)

evaluate_board(b) == MaterialFrom(b, 1)

(***************************************************************************)
(* Values returned by minimax: a pair (move, score), where move may be     *)
(* None, or the None a call returns when it falls off its end.             *)
(***************************************************************************)
Pair(m, s) == [pair |-> TRUE, move |-> m, score |-> s]
ReturnsNone == [pair |-> FALSE, move |-> NoMove, score |-> 0]

NoBoard == [turn |-> WHITE, pieces |-> StartPieces, move_stack |-> <<>>]

NoRet ==
  [set |-> FALSE, value |-> ReturnsNone, entry |-> NoBoard, depth |-> 0,
   alpha |-> NegInf, beta |-> PosInf, is_maximizing |-> TRUE,
   moves |-> <<>>, scores |-> <<>>]

NoCall ==
  [fn |-> "none", board |-> NoBoard, depth |-> 0, alpha |-> NegInf,
   beta |-> PosInf, is_maximizing |-> TRUE]

(***************************************************************************)
(* A frame of minimax: its parameters (alpha and beta are assigned to in   *)
(* the body), its locals, the statement it is at, and what it was called   *)
(* with (entry, alpha0, beta0) and has seen (moves, scores).               *)
(***************************************************************************)
Frame(b, depth, alpha, beta, is_maximizing) ==
  [depth |-> depth, alpha |-> alpha, beta |-> beta,
   is_maximizing |-> is_maximizing,
   pc |-> "start",
   best_eval |-> IF is_maximizing THEN NegInf ELSE PosInf,
   best_move |-> NoMove,
   cur_eval |-> 0,
   alph |-> NegInf,
   moves |-> legal_moves(b),
   i |-> 0,
   scores |-> <<>>,
   entry |-> b, alpha0 |-> alpha, beta0 |-> beta]

Top == stack[Len(stack)]

Max2(a, b) == IF a >= b THEN a ELSE b
Min2(a, b) == IF a <= b THEN a ELSE b

Windows == {<<NegInf, PosInf>>, <<0, PosInf>>, <<0, 0>>}

Init ==
  /\ game \in [moves : UNION {[1..n -> Captures] : n \in 1..MaxMoves},
               len : 0..MaxPly,
               check : BOOLEAN]
  /\ board \in [turn : Colors, pieces : {StartPieces}, move_stack : {<<>>}]
  /\ stack = <<>>
  /\ ret = NoRet
  /\ status = "idle"
  /\ call = NoCall
  /\ result = 0

(***************************************************************************)
(* Bot.next_move, lines 80-82: the root call of the search.                *)
(***************************************************************************)
RootMaximizing(b) == TRUE

NextMove ==
  /\ status = "idle"
  /\ stack' = <<Frame(board, max_depth, NegInf, PosInf, RootMaximizing(board))>>
  /\ call' = [fn |-> "next_move", board |-> board, depth |-> max_depth,
              alpha |-> NegInf, beta |-> PosInf,
              is_maximizing |-> RootMaximizing(board)]
  /\ status' = "searching"
  /\ UNCHANGED <<game, board, ret, result>>

(***************************************************************************)
(* A direct call minimax(board, depth, alpha, beta, is_maximizing).        *)
(***************************************************************************)
CallMinimax ==
  /\ status = "idle"
  /\ \E depth \in 0..max_depth, w \in Windows, is_maximizing \in BOOLEAN :
       /\ stack' = <<Frame(board, depth, w[1], w[2], is_maximizing)>>
       /\ call' = [fn |-> "minimax", board |-> board, depth |-> depth,
                   alpha |-> w[1], beta |-> w[2],
                   is_maximizing |-> is_maximizing]
  /\ status' = "searching"
  /\ UNCHANGED <<game, board, ret, result>>

(***************************************************************************)
(* A return of the top frame with value v.                                 *)
(***************************************************************************)
Return(v) ==
  /\ ret' = [set |-> TRUE, value |-> v, entry |-> Top.entry,
             depth |-> Top.depth, alpha |-> Top.alpha0, beta |-> Top.beta0,
             is_maximizing |-> Top.is_maximizing,
             moves |-> Top.moves, scores |-> Top.scores]
  /\ stack' = SubSeq(stack, 1, Len(stack) - 1)
  /\ status' = IF Len(stack) = 1 THEN "returned" ELSE "searching"

(***************************************************************************)
(* Lines 89-90.                                                            *)
(***************************************************************************)
IsBase(f, b) == f.depth = 0 \/ is_game_over(b)

BaseCase ==
  /\ status = "searching"
  /\ Top.pc = "start"
  /\ IsBase(Top, board)
  /\ Return(Pair(NoMove, evaluate_board(board)))
  /\ UNCHANGED <<game, board, call, result>>

(***************************************************************************)
(* Lines 94-97 and 110-112: the next move of the loop is pushed and the    *)
(* recursive call is made with the frame's alpha and beta.                 *)
(***************************************************************************)
AtLoop(f, b) ==
  \/ f.pc = "start" /\ ~IsBase(f, b)
  \/ f.pc = "loop"

CallChild(is_maximizing) ==
  /\ status = "searching"
  /\ Top.is_maximizing = is_maximizing
  /\ AtLoop(Top, board)
  /\ Top.i < Len(Top.moves)
  /\ LET move == Top.moves[Top.i + 1]
         child == Frame(Push(board, move), Top.depth - 1, Top.alpha, Top.beta,
                        ~is_maximizing)
     IN /\ board' = Push(board, move)
        /\ stack' = [stack EXCEPT ![Len(stack)] =
                        [@ EXCEPT !.pc = "called", !.i = @ + 1]] \o <<child>>
  /\ UNCHANGED <<game, ret, status, call, result>>

MaxCall == CallChild(TRUE)

MinCall == CallChild(FALSE)

(***************************************************************************)
(* Lines 98 and 113: board.pop()                                           *)
(***************************************************************************)
UndoMoveSkipped(b) == b

UndoMove(b) == Pop(b)

(***************************************************************************)
(* Lines 99-102: the maximizing node takes the child's score.              *)
(***************************************************************************)
MaxBetter(cur_eval, max_eval) == cur_eval > max_eval

MaxAlphaRaised(f, cur_eval) == Max2(f.alpha, cur_eval)

MaxAlpha(f, cur_eval) == f.alpha

MaxUpdate ==
  /\ status = "searching"
  /\ Top.is_maximizing
  /\ Top.pc = "called"
  /\ ret.set /\ ret.value.pair
  /\ LET cur_eval == ret.value.score
         better == MaxBetter(cur_eval, Top.best_eval)
     IN stack' = [stack EXCEPT ![Len(stack)] =
                    [@ EXCEPT !.pc = "test",
                              !.cur_eval = cur_eval,
                              !.best_eval = IF better THEN cur_eval ELSE @,
                              !.best_move =
                                 IF better THEN Top.moves[Top.i] ELSE @,
                              !.alph = Max2(Top.alpha, cur_eval),
                              !.alpha = MaxAlpha(Top, cur_eval),
                              !.scores = Append(@, cur_eval)]]
  /\ board' = UndoMove(board)
  /\ ret' = NoRet
  /\ UNCHANGED <<game, status, call, result>>

(***************************************************************************)
(* Lines 113-117: the minimizing node takes the child's score.             *)
(***************************************************************************)
MinBetterOrEqual(cur_eval, min_eval) == cur_eval <= min_eval

MinBetter(cur_eval, min_eval) == cur_eval < min_eval

MinBeta(f, cur_eval) == Min2(f.beta, cur_eval)

MinUpdate ==
  /\ status = "searching"
  /\ ~Top.is_maximizing
  /\ Top.pc = "called"
  /\ ret.set /\ ret.value.pair
  /\ LET cur_eval == ret.value.score
         better == MinBetter(cur_eval, Top.best_eval)
     IN stack' = [stack EXCEPT ![Len(stack)] =
                    [@ EXCEPT !.pc = "test",
                              !.cur_eval = cur_eval,
                              !.best_eval = IF better THEN cur_eval ELSE @,
                              !.best_move =
                                 IF better THEN Top.moves[Top.i] ELSE @,
                              !.beta = MinBeta(Top, cur_eval),
                              !.scores = Append(@, cur_eval)]]
  /\ board' = UndoMove(board)
  /\ ret' = NoRet
  /\ UNCHANGED <<game, status, call, result>>

(***************************************************************************)
(* Lines 96-97 and 112: subscripting the None a child returned raises      *)
(* TypeError, which no caller catches; the pushed moves stay on the board. *)
(***************************************************************************)
RaiseTypeError ==
  /\ status = "searching"
  /\ Top.pc = "called"
  /\ ret.set /\ ~ret.value.pair
  /\ stack' = <<>>
  /\ ret' = NoRet
  /\ status' = "TypeError"
  /\ UNCHANGED <<game, board, call, result>>

(***************************************************************************)
(* Lines 103-105: what the maximizing node does after a child.             *)
(***************************************************************************)
Cutoff(f) == f.beta <= f.alpha

MaxNextExhaustive(f) ==
  IF Cutoff(f) \/ f.i >= Len(f.moves)
  THEN [op |-> "return", value |-> Pair(f.best_move, f.best_eval)]
  ELSE [op |-> "continue", value |-> ReturnsNone]

MaxNext(f) ==
  IF Cutoff(f) THEN [op |-> "return", value |-> ReturnsNone]
  ELSE [op |-> "return", value |-> Pair(f.best_move, f.best_eval)]

(***************************************************************************)
(* Lines 118-120: what the minimizing node does after a child.             *)
(***************************************************************************)
MinNext(f) ==
  IF Cutoff(f) \/ f.i >= Len(f.moves)
  THEN [op |-> "return", value |-> Pair(f.best_move, f.best_eval)]
  ELSE [op |-> "continue", value |-> ReturnsNone]

Step(next) ==
  IF next.op = "return"
  THEN Return(next.value)
  ELSE /\ stack' = [stack EXCEPT ![Len(stack)] = [@ EXCEPT !.pc = "loop"]]
       /\ UNCHANGED <<ret, status>>

MaxTest ==
  /\ status = "searching"
  /\ Top.is_maximizing
  /\ Top.pc = "test"
  /\ Step(MaxNext(Top))
  /\ UNCHANGED <<game, board, call, result>>

MinTest ==
  /\ status = "searching"
  /\ ~Top.is_maximizing
  /\ Top.pc = "test"
  /\ Step(MinNext(Top))
  /\ UNCHANGED <<game, board, call, result>>

(***************************************************************************)
(* Bot.next_move, lines 81-83: the pair is unpacked and move.uci() is      *)
(* returned; a None move has no uci and raises AttributeError.             *)
(***************************************************************************)
NextMoveReturn ==
  /\ status = "returned"
  /\ call.fn = "next_move"
  /\ IF ~ret.value.pair
     THEN status' = "TypeError" /\ result' = result
     ELSE IF ret.value.move = NoMove
     THEN status' = "AttributeError" /\ result' = result
     ELSE status' = "done" /\ result' = uci(ret.value.move)
  /\ UNCHANGED <<game, board, stack, ret, call>>

Next ==
  \/ NextMove
  \/ CallMinimax
  \/ BaseCase
  \/ MaxCall
  \/ MinCall
  \/ MaxUpdate
  \/ MinUpdate
  \/ RaiseTypeError
  \/ MaxTest
  \/ MinTest
  \/ NextMoveReturn

Spec == Init /\ [][Next]_vars

(***************************************************************************)
(* Reference: plain minimax without any cutoff over the same game, the     *)
(* same evaluator and the same enumeration order; the first of the best    *)
(* children is kept.                                                       *)
(***************************************************************************)
RECURSIVE BruteForce(_, _, _)
RECURSIVE BruteScan(_, _, _, _, _)
BruteScan(b, depth, is_maximizing, i, best) ==
  IF i > Len(legal_moves(b)) THEN best
  ELSE LET move == legal_moves(b)[i]
           s == BruteForce(Push(b, move), depth - 1, ~is_maximizing).score
           better == IF is_maximizing THEN s > best.score ELSE s < best.score
       IN BruteScan(b, depth, is_maximizing, i + 1,
                    IF better THEN Pair(move, s) ELSE best)

BruteForce(b, depth, is_maximizing) ==
  IF depth = 0 \/ is_game_over(b) THEN Pair(NoMove, evaluate_board(b))
  ELSE BruteScan(b, depth, is_maximizing, 1,
                 Pair(NoMove, IF is_maximizing THEN NegInf ELSE PosInf))

ChildScores(b) ==
  {evaluate_board(Push(b, legal_moves(b)[i])) : i \in 1..Len(legal_moves(b))}

BestOf(S, is_maximizing) ==
  CHOOSE s \in S :
    \A t \in S : IF is_maximizing THEN s >= t ELSE s <= t

Range(seq) == {seq[i] : i \in 1..Len(seq)}

FirstIndex(seq, v) ==
  CHOOSE i \in 1..Len(seq) :
    seq[i] = v /\ \A j \in 1..(i - 1) : seq[j] # v

SideMaterial(pieces) ==
  MaterialFrom([turn |-> WHITE,
                pieces |-> [c \in Colors |->
                              IF c = WHITE THEN pieces
                              ELSE [t \in PieceTypes |-> 0]],
                move_stack |-> <<>>], 1)

MaxMaterial == SideMaterial(StartPieces[WHITE])

RootWindow == call.alpha = NegInf /\ call.beta = PosInf

DirectCallReturned == status = "returned" /\ call.fn = "minimax"

(***************************************************************************)
(* C1: a call minimax(position, depth, -inf, +inf, maximizing), for every  *)
(* depth 0..4 and both orientations, returns the move and the score of     *)
(* plain brute-force minimax without cutoffs.                              *)
(***************************************************************************)
C1_EqualsBruteForce ==
  (DirectCallReturned /\ RootWindow)
    => ret.value = BruteForce(call.board, call.depth, call.is_maximizing)

(***************************************************************************)
(* C2: at depth 1 with alpha = -inf and beta = +inf, a non-terminal node   *)
(* returns the maximum (maximizing) or minimum (minimizing) of the         *)
(* evaluator over all its k children, having examined all k.               *)
(***************************************************************************)
C2_DepthOneExhaustive ==
  (DirectCallReturned /\ RootWindow /\ call.depth = 1
     /\ ~is_game_over(call.board))
    => /\ ret.value.pair
       /\ ret.value.score =
            BestOf(ChildScores(call.board), call.is_maximizing)
       /\ Len(ret.scores) = Len(legal_moves(call.board))

(***************************************************************************)
(* C3: whenever a minimax call returns, by any exit path, the board is     *)
(* what it was when the call started; and a frame executing its own        *)
(* statements sees the board it was called with, so pushes and pops are    *)
(* paired in LIFO order with the recursion.                                *)
(***************************************************************************)
C3_BoardRestored ==
  /\ ret.set => board = ret.entry
  /\ (status = "searching" /\ Top.pc # "called") => board = Top.entry
  /\ \A k \in 1..Len(stack) :
       Len(stack[k].entry.move_stack) = Len(call.board.move_stack) + k - 1

C3_Witness ==
  /\ ret.set
  /\ ret.depth >= 2
  /\ Len(ret.scores) >= 2
  /\ \E k \in 1..Len(ret.moves) : ret.moves[k].capture # NoCapture
  /\ board = ret.entry

(***************************************************************************)
(* C4: next_move starts the root search with maximizing = true exactly     *)
(* when White, the side favoured by higher scores, is to move.             *)
(***************************************************************************)
C4_RootOrientation ==
  call.fn = "next_move"
    => (call.is_maximizing <=> call.board.turn = WHITE)

(***************************************************************************)
(* C5: next_move on a position that is already game over checks this       *)
(* before the search, never enters minimax and reports 'no move' instead   *)
(* of failing on a missing move.                                           *)
(***************************************************************************)
C5_TerminalChecked ==
  (call.fn = "next_move" /\ is_game_over(call.board))
    => /\ stack = <<>>
       /\ ~ret.set
       /\ status # "AttributeError"

(***************************************************************************)
(* C6: a node reached with remaining depth > 0 that is checkmate is        *)
(* scored strictly better for the mating side than any material score.     *)
(***************************************************************************)
C6_MateDominates ==
  (ret.set /\ ret.depth > 0 /\ is_checkmate(ret.entry))
    => /\ ret.value.pair
       /\ IF ret.entry.turn = BLACK
          THEN ret.value.score > MaxMaterial
          ELSE ret.value.score < 0 - MaxMaterial

(***************************************************************************)
(* C7: the best move is replaced only on a strictly better score, so a     *)
(* returning node gives the best score of the children it examined and,    *)
(* among those with that score, the earliest in enumeration order; a       *)
(* depth-1 search whose every child evaluates to 0 returns 0 and the       *)
(* first move.                                                             *)
(***************************************************************************)
C7_FirstSeenWinsTies ==
  (ret.set /\ ret.value.pair /\ ret.scores # <<>>)
    => /\ ret.value.score = BestOf(Range(ret.scores), ret.is_maximizing)
       /\ ret.value.move = ret.moves[FirstIndex(ret.scores, ret.value.score)]
       /\ (ret.depth = 1 /\ ChildScores(ret.entry) = {0})
            => ret.value = Pair(ret.moves[1], 0)

C7_Witness ==
  /\ ret.set /\ ret.value.pair
  /\ Len(ret.scores) >= 2
  /\ ret.scores[1] = ret.scores[2]
  /\ ret.value.score = ret.scores[1]
  /\ ret.value.move = ret.moves[1]

(***************************************************************************)
(* C8: after each child a maximizing node has alpha = max(alpha, best      *)
(* score so far) and a minimizing node has beta = min(beta, best score so  *)
(* far), and every recursive call receives the caller's current bounds.    *)
(***************************************************************************)
C8_BoundsFollowBest ==
  \A k \in 1..Len(stack) :
    /\ stack[k].scores # <<>>
         => IF stack[k].is_maximizing
            THEN stack[k].alpha = Max2(stack[k].alpha0, stack[k].best_eval)
            ELSE stack[k].beta = Min2(stack[k].beta0, stack[k].best_eval)
    /\ k > 1 => /\ stack[k].alpha0 = stack[k - 1].alpha
                /\ stack[k].beta0 = stack[k - 1].beta

(***************************************************************************)
(* C9: in a search started with alpha = -inf and beta = +inf, alpha is     *)
(* -inf at every node, the test beta <= alpha is false whenever it is      *)
(* evaluated, and no call ends without returning a pair.                   *)
(***************************************************************************)
C9_NoCutoffFromRoot ==
  RootWindow
    => /\ \A k \in 1..Len(stack) :
            /\ stack[k].alpha = NegInf
            /\ stack[k].pc = "test" => ~Cutoff(stack[k])
       /\ ret.set => ret.value.pair
       /\ status # "TypeError"

C9_Witness ==
  /\ status = "searching"
  /\ RootWindow
  /\ Len(stack) >= 2
  /\ Top.pc = "test"
  /\ Top.beta < PosInf
  /\ ~Cutoff(Top)

(***************************************************************************)
(* C10: on every position that is not game over, whichever side is to      *)
(* move, next_move returns the first move of the legal-move enumeration.   *)
(***************************************************************************)
C10_FirstMoveReturned ==
  (call.fn = "next_move" /\ ~is_game_over(call.board))
    => /\ status \notin {"TypeError", "AttributeError"}
       /\ status = "done"
            => result = uci(legal_moves(call.board)[1])

C10_Witness ==
  /\ call.fn = "next_move"
  /\ status = "done"
  /\ result = uci(legal_moves(call.board)[1])
  /\ BruteForce(call.board, max_depth, TRUE).move # legal_moves(call.board)[1]

====
